---- MODULE Spec2Model ----
(***************************************************************************)
(* Model of opencog_bridge.py: a command-line bridge whose operations run  *)
(* either against an OpenCog AtomSpace (opencog_available) or return mock  *)
(* placeholders.  One step of the model is one pass through main().        *)
(*                                                                         *)
(* Python strings are sequences of one-character strings, so that          *)
(* concatenation, str(), lower() and `in` are computed, not assumed.       *)
(* Fractional numbers (confidence, strength, threshold, attention) are     *)
(* written in hundredths: 0.85 is 85, 1.0 is 100.                          *)
(***************************************************************************)
EXTENDS Integers, Sequences, FiniteSets, TLC

VARIABLES atomspace, opencog_available, atoms, passes, last, prev

vars == <<atomspace, opencog_available, atoms, passes, last, prev>>

(***************************************************************************)
(* Bounds of the model.                                                    *)
(***************************************************************************)
MaxPasses == 2
MaxFail == 2

(***************************************************************************)
(* Strings.                                                                *)
(***************************************************************************)
UpperChars == <<"A","B","C","D","E","F","G","H","I","J","K","L","M",
                "N","O","P","Q","R","S","T","U","V","W","X","Y","Z">>
LowerChars == <<"a","b","c","d","e","f","g","h","i","j","k","l","m",
                "n","o","p","q","r","s","t","u","v","w","x","y","z">>
Digits == <<"0","1","2","3","4","5","6","7","8","9">>

lower_char(c) ==
    IF \E i \in 1..Len(UpperChars) : UpperChars[i] = c
    THEN LowerChars[CHOOSE i \in 1..Len(UpperChars) : UpperChars[i] = c]
    ELSE c

\* s.lower()
lower(s) == [i \in 1..Len(s) |-> lower_char(s[i])]

\* sub in s
contains(sub, s) ==
    \E i \in 0..(Len(s) - Len(sub)) : \A j \in 1..Len(sub) : s[i + j] = sub[j]

\* str(n) for a non-negative integer
RECURSIVE str_int(_)
str_int(n) ==
    IF n < 10 THEN <<Digits[n + 1]>>
    ELSE str_int(n \div 10) \o <<Digits[(n % 10) + 1]>>

\* str(prop_value) for a JSON value: a number prints its digits, a string is itself
str_value(v) == IF v.kind = "int" THEN str_int(v.n) ELSE v.s

\* JSON values of a properties map: a number or a string
JInt(n) == [kind |-> "int", n |-> n, s |-> <<>>]
JStr(s) == [kind |-> "str", n |-> 0, s |-> s]

(***************************************************************************)
(* Python values returned by the operations.                               *)
(***************************************************************************)
PyStr(s) == [type |-> "str", val |-> s]
PyList(l) == [type |-> "list", val |-> l]
PyDict(d) == [type |-> "dict", val |-> d]
PyNone == [type |-> "none", val |-> <<>>]

(***************************************************************************)
(* The AtomSpace collaborator: atoms, their string form, the store.        *)
(* The store `atoms` is the sequence of entries [atom, tv] in insertion    *)
(* order; the handle of an atom is its position.                           *)
(***************************************************************************)
Node(t, name) == [t |-> t, name |-> name, out |-> <<>>]
Link(t, out) == [t |-> t, name |-> <<>>, out |-> out]
ConceptNode(name) == Node("ConceptNode", name)
PredicateNode(name) == Node("PredicateNode", name)
ListLink(a, b) == Link("ListLink", <<a, b>>)
EvaluationLink(p, l) == Link("EvaluationLink", <<p, l>>)

AtomTypes == {"ConceptNode", "PredicateNode", "ListLink", "EvaluationLink"}

TypeChars(t) ==
    CASE t = "ConceptNode" -> <<"C","o","n","c","e","p","t","N","o","d","e">>
      [] t = "PredicateNode" -> <<"P","r","e","d","i","c","a","t","e","N","o","d","e">>
      [] t = "ListLink" -> <<"L","i","s","t","L","i","n","k">>
      [] t = "EvaluationLink" -> <<"E","v","a","l","u","a","t","i","o","n","L","i","n","k">>

\* str(atom)
RECURSIVE atom_str(_)
atom_str(a) ==
    IF a.out = <<>>
    THEN <<"(">> \o TypeChars(a.t) \o <<" ", "\"">> \o a.name \o <<"\"", ")">>
    ELSE <<"(">> \o TypeChars(a.t) \o <<" ">> \o atom_str(a.out[1])
               \o <<" ">> \o atom_str(a.out[2]) \o <<")">>

DefaultTV == [mean |-> 100, confidence |-> 0]
\* TruthValue(strength, 0.9)
TruthValue(strength, confidence) == [mean |-> strength, confidence |-> confidence]

\* atom in atomspace
in_atomspace(store, a) == \E i \in 1..Len(store) : store[i].atom = a

\* atom.h
handle(store, a) == CHOOSE i \in 1..Len(store) : store[i].atom = a

\* atomspace.add_atom(atom): the atom's outgoing set is inserted with it; an
\* atom already stored is not stored twice, and keeps the truth value of
\* higher confidence
RECURSIVE add_atom(_, _, _)
add_atom(store, a, tv) ==
    LET withOut == IF a.out = <<>> THEN store
                   ELSE add_atom(add_atom(store, a.out[1], DefaultTV), a.out[2], DefaultTV)
    IN  IF in_atomspace(withOut, a)
        THEN [i \in 1..Len(withOut) |->
                 IF withOut[i].atom = a /\ tv.confidence >= withOut[i].tv.confidence
                 THEN [atom |-> a, tv |-> tv] ELSE withOut[i]]
        ELSE Append(withOut, [atom |-> a, tv |-> tv])

\* atomspace.get_incoming(atom): positions of the stored links that hold the atom
get_incoming(store, a) ==
    {i \in 1..Len(store) : \E k \in 1..Len(store[i].atom.out) : store[i].atom.out[k] = a}

(***************************************************************************)
(* The process-wide context and the outcome of one operation.              *)
(***************************************************************************)
Ctx(h, avail, store) == [atomspace |-> h, opencog_available |-> avail, atoms |-> store]

\* return value
Ret(ctx, v) == [ctx |-> ctx, raised |-> FALSE, backend |-> FALSE, value |-> v]
\* exception leaving the operation; backend tells a failure of the library call
Raise(ctx, backend) == [ctx |-> ctx, raised |-> TRUE, backend |-> backend, value |-> PyNone]

\* the handle is usable: a method call on None raises AttributeError
Live(ctx) == ctx.atomspace # "None"

Acquisitions == {"ok", "ImportError", "AtomSpaceRaises", "InitializeRaises"}

\* variant: the except branches do not reset the mode flag
initialize_opencog_keeps_mode(ctx, acq) ==
    CASE acq = "ok" -> Ctx("AtomSpace", TRUE, <<>>)
      [] acq = "ImportError" -> ctx
      [] acq = "AtomSpaceRaises" -> ctx
      [] acq = "InitializeRaises" -> Ctx("AtomSpace", ctx.opencog_available, <<>>)

initialize_opencog(ctx, acq) ==
    CASE acq = "ok" -> Ctx("AtomSpace", TRUE, <<>>)
      [] acq = "ImportError" -> Ctx(ctx.atomspace, FALSE, ctx.atoms)
      [] acq = "AtomSpaceRaises" -> Ctx(ctx.atomspace, FALSE, ctx.atoms)
      [] acq = "InitializeRaises" -> Ctx("AtomSpace", FALSE, <<>>)

S_mock_atomspace_id == <<"m","o","c","k","_","a","t","o","m","s","p","a","c","e","_","i","d">>
S_atomspace_initialized == <<"a","t","o","m","s","p","a","c","e","_","i","n","i","t","i","a","l","i","z","e","d">>

initialize_atomspace(ctx) ==
    IF ~ctx.opencog_available THEN Ret(ctx, PyStr(S_mock_atomspace_id))
    ELSE Ret(ctx, PyStr(S_atomspace_initialized))

S_mock_concept_ == <<"m","o","c","k","_","c","o","n","c","e","p","t","_">>

\* variant: a failure of the backend is answered with the mock value
create_concept_node_fallback(ctx, concept, fail) ==
    IF ~ctx.opencog_available THEN Ret(ctx, PyStr(S_mock_concept_ \o concept))
    ELSE IF ~Live(ctx) THEN Raise(ctx, FALSE)
    ELSE IF fail = 1
         THEN [Ret(ctx, PyStr(S_mock_concept_ \o concept)) EXCEPT !.backend = TRUE]
    ELSE LET node == ConceptNode(concept)
             store == add_atom(ctx.atoms, node, DefaultTV)
         IN  Ret([ctx EXCEPT !.atoms = store], PyStr(str_int(handle(store, node))))

\* fail = k: the k-th call on the atomspace raises (0: none does)
create_concept_node(ctx, concept, fail) ==
    IF ~ctx.opencog_available THEN Ret(ctx, PyStr(S_mock_concept_ \o concept))
    ELSE IF ~Live(ctx) THEN Raise(ctx, FALSE)
    ELSE IF fail = 1 THEN Raise(ctx, TRUE)
    ELSE LET node == ConceptNode(concept)
             store == add_atom(ctx.atoms, node, DefaultTV)
         IN  Ret([ctx EXCEPT !.atoms = store], PyStr(str_int(handle(store, node))))

S_mock_predicate_ == <<"m","o","c","k","_","p","r","e","d","i","c","a","t","e","_">>

create_predicate_node(ctx, predicate, fail) ==
    IF ~ctx.opencog_available THEN Ret(ctx, PyStr(S_mock_predicate_ \o predicate))
    ELSE IF ~Live(ctx) THEN Raise(ctx, FALSE)
    ELSE IF fail = 1 THEN Raise(ctx, TRUE)
    ELSE LET node == PredicateNode(predicate)
             store == add_atom(ctx.atoms, node, DefaultTV)
         IN  Ret([ctx EXCEPT !.atoms = store], PyStr(str_int(handle(store, node))))

S_mock_entity_ == <<"m","o","c","k","_","e","n","t","i","t","y","_">>
S_entity_ == <<"e","n","t","i","t","y","_">>
S_has_ == <<"h","a","s","_">>

\* variant: the predicate is named by the key alone
property_link_unprefixed(entity_node, prop) ==
    EvaluationLink(PredicateNode(prop.key),
                   ListLink(entity_node, ConceptNode(str_value(prop.value))))

\* the association made for one property of an entity
property_link(entity_node, prop) ==
    EvaluationLink(PredicateNode(S_has_ \o prop.key),
                   ListLink(entity_node, ConceptNode(str_value(prop.value))))

\* the first n iterations of the loop over properties.items()
RECURSIVE add_properties(_, _, _, _)
add_properties(store, entity_node, properties, n) ==
    IF n = 0 THEN store
    ELSE add_atom(add_properties(store, entity_node, properties, n - 1),
                  property_link(entity_node, properties[n]), DefaultTV)

\* properties: the items of the dict, a sequence of [key, value] with distinct keys
add_transaction_entity(ctx, entity_id, properties, fail) ==
    IF ~ctx.opencog_available THEN Ret(ctx, PyStr(S_mock_entity_ \o entity_id))
    ELSE IF ~Live(ctx) THEN Raise(ctx, FALSE)
    ELSE IF fail = 1 THEN Raise(ctx, TRUE)
    ELSE LET entity_node == ConceptNode(S_entity_ \o entity_id)
             store0 == add_atom(ctx.atoms, entity_node, DefaultTV)
         IN  IF fail \in 2..(Len(properties) + 1)
             THEN Raise([ctx EXCEPT !.atoms =
                            add_properties(store0, entity_node, properties, fail - 2)], TRUE)
             ELSE LET store == add_properties(store0, entity_node, properties, Len(properties))
                  IN  Ret([ctx EXCEPT !.atoms = store],
                          PyStr(str_int(handle(store, entity_node))))

S_mock_relationship_ == <<"m","o","c","k","_","r","e","l","a","t","i","o","n","s","h","i","p","_">>
RelationshipConfidence == 90

create_relationship(ctx, predicate, from_entity, to_entity, strength, fail) ==
    IF ~ctx.opencog_available
    THEN Ret(ctx, PyStr(S_mock_relationship_ \o predicate \o <<"_">> \o from_entity
                            \o <<"_">> \o to_entity))
    ELSE IF ~Live(ctx) THEN Raise(ctx, FALSE)
    ELSE IF fail = 1 THEN Raise(ctx, TRUE)
    ELSE LET from_node == ConceptNode(from_entity)
             to_node == ConceptNode(to_entity)
             pred_node == PredicateNode(predicate)
             eval_link == EvaluationLink(pred_node, ListLink(from_node, to_node))
             store == add_atom(ctx.atoms, eval_link,
                               TruthValue(strength, RelationshipConfidence))
         IN  Ret([ctx EXCEPT !.atoms = store], PyStr(str_int(handle(store, eval_link))))

S_mock_match_1 == <<"m","o","c","k","_","m","a","t","c","h","_","1">>
S_mock_match_2 == <<"m","o","c","k","_","m","a","t","c","h","_","2">>
MatchLimit == 10

Min(a, b) == IF a < b THEN a ELSE b

\* the handles of the stored atoms whose string form holds the pattern, in store order
matching_atoms(store, pattern) ==
    LET hit(i) == contains(lower(pattern), lower(atom_str(store[i].atom)))
    IN  SelectSeq([i \in 1..Len(store) |-> i], hit)

\* variant: count is taken after the truncation
execute_pattern_matching_capped(ctx, pattern, fail) ==
    IF ~ctx.opencog_available
    THEN Ret(ctx, PyList(<<[pattern |-> pattern,
                            matches |-> <<S_mock_match_1, S_mock_match_2>>,
                            confidence |-> 85]>>))
    ELSE IF ~Live(ctx) THEN Raise(ctx, FALSE)
    ELSE IF fail = 1 THEN Raise(ctx, TRUE)
    ELSE LET matching == matching_atoms(ctx.atoms, pattern)
             first == SubSeq(matching, 1, Min(Len(matching), MatchLimit))
         IN  IF matching # <<>>
             THEN Ret(ctx, PyList(<<[pattern |-> pattern,
                                     matches |-> [i \in 1..Len(first) |-> str_int(first[i])],
                                     confidence |-> 80,
                                     count |-> Len(first)]>>))
             ELSE Ret(ctx, PyList(<<>>))

execute_pattern_matching(ctx, pattern, fail) ==
    IF ~ctx.opencog_available
    THEN Ret(ctx, PyList(<<[pattern |-> pattern,
                            matches |-> <<S_mock_match_1, S_mock_match_2>>,
                            confidence |-> 85]>>))
    ELSE IF ~Live(ctx) THEN Raise(ctx, FALSE)
    ELSE IF fail = 1 THEN Raise(ctx, TRUE)
    ELSE LET matching == matching_atoms(ctx.atoms, pattern)
             first == SubSeq(matching, 1, Min(Len(matching), MatchLimit))
         IN  IF matching # <<>>
             THEN Ret(ctx, PyList(<<[pattern |-> pattern,
                                     matches |-> [i \in 1..Len(first) |-> str_int(first[i])],
                                     confidence |-> 80,
                                     count |-> Len(matching)]>>))
             ELSE Ret(ctx, PyList(<<>>))

S_mock_inference_result == <<"m","o","c","k","_","i","n","f","e","r","e","n","c","e","_","r","e","s","u","l","t">>
S_inferred_from_ == <<"i","n","f","e","r","r","e","d","_","f","r","o","m","_">>
S_step1 == <<"s","t","e","p","1">>
S_step2 == <<"s","t","e","p","2">>
S_conclusion == <<"c","o","n","c","l","u","s","i","o","n">>
MockStepCap == 5
RealStepCap == 3

run_pln_inference(ctx, query, max_steps) ==
    IF ~ctx.opencog_available
    THEN Ret(ctx, PyList(<<[query |-> query,
                            inference_result |-> S_mock_inference_result,
                            confidence |-> 75,
                            steps |-> Min(max_steps, MockStepCap)]>>))
    ELSE Ret(ctx, PyList(<<[query |-> query,
                            inference_result |-> S_inferred_from_ \o query,
                            confidence |-> 70,
                            steps |-> Min(max_steps, RealStepCap),
                            reasoning_path |-> <<S_step1, S_step2, S_conclusion>>]>>))

S_mock_entity_1 == <<"m","o","c","k","_","e","n","t","i","t","y","_","1">>
S_unusual == <<"u","n","u","s","u","a","l","_","t","r","a","n","s","a","c","t","i","o","n","_","p","a","t","t","e","r","n">>
S_mock_anomaly_description == <<"M","o","c","k"," ","a","n","o","m","a","l","y"," ","d","e","t","e","c","t","i","o","n"," ","r","e","s","u","l","t">>
S_high_attention == <<"h","i","g","h","_","a","t","t","e","n","t","i","o","n">>
S_Atom_ == <<"A","t","o","m"," ">>
S_has_unusually == <<" ","h","a","s"," ","u","n","u","s","u","a","l","l","y"," ","h","i","g","h"," ","a","t","t","e","n","t","i","o","n"," ","v","a","l","u","e">>

\* variant: an attention value equal to the threshold is reported too
detect_anomalies_inclusive(ctx, threshold, fail, sti) ==
    IF ~ctx.opencog_available
    THEN Ret(ctx, PyList(<<[entity_id |-> S_mock_entity_1,
                            anomaly_score |-> 95,
                            anomaly_type |-> S_unusual,
                            description |-> S_mock_anomaly_description]>>))
    ELSE IF ~Live(ctx) THEN Raise(ctx, FALSE)
    ELSE IF fail = 1 THEN Raise(ctx, TRUE)
    ELSE LET hot(i) == sti[ctx.atoms[i].atom.t] >= threshold
             found == SelectSeq([i \in 1..Len(ctx.atoms) |-> i], hot)
         IN  Ret(ctx, PyList([k \in 1..Len(found) |->
                     [atom_id |-> str_int(found[k]),
                      anomaly_score |-> sti[ctx.atoms[found[k]].atom.t],
                      anomaly_type |-> S_high_attention,
                      description |-> S_Atom_ \o atom_str(ctx.atoms[found[k]].atom)
                                          \o S_has_unusually]]))

\* sti: the attention value atom.asti the backend holds for the atoms of each
\* type; the bridge only reads it
detect_anomalies(ctx, threshold, fail, sti) ==
    IF ~ctx.opencog_available
    THEN Ret(ctx, PyList(<<[entity_id |-> S_mock_entity_1,
                            anomaly_score |-> 95,
                            anomaly_type |-> S_unusual,
                            description |-> S_mock_anomaly_description]>>))
    ELSE IF ~Live(ctx) THEN Raise(ctx, FALSE)
    ELSE IF fail = 1 THEN Raise(ctx, TRUE)
    ELSE LET hot(i) == sti[ctx.atoms[i].atom.t] > threshold
             found == SelectSeq([i \in 1..Len(ctx.atoms) |-> i], hot)
         IN  Ret(ctx, PyList([k \in 1..Len(found) |->
                     [atom_id |-> str_int(found[k]),
                      anomaly_score |-> sti[ctx.atoms[found[k]].atom.t],
                      anomaly_type |-> S_high_attention,
                      description |-> S_Atom_ \o atom_str(ctx.atoms[found[k]].atom)
                                          \o S_has_unusually]]))

S_mock_pattern_1 == <<"m","o","c","k","_","p","a","t","t","e","r","n","_","1">>
S_mock_pattern_2 == <<"m","o","c","k","_","p","a","t","t","e","r","n","_","2">>

\* hasattr(link, 'get_predicate'): the atoms of the backend have no such method
has_get_predicate(link) == FALSE

get_cognitive_insights(ctx, entity_id, fail, sti) ==
    IF ~ctx.opencog_available
    THEN Ret(ctx, PyDict([entity_id |-> entity_id,
                          behavioral_patterns |-> <<S_mock_pattern_1, S_mock_pattern_2>>,
                          cognitive_score |-> 80,
                          attention_level |-> 60,
                          relationship_count |-> 5]))
    ELSE IF ~Live(ctx) THEN Raise(ctx, FALSE)
    ELSE IF fail = 1 THEN Raise(ctx, TRUE)
    ELSE LET entity_node == ConceptNode(S_entity_ \o entity_id)
             known == in_atomspace(ctx.atoms, entity_node)
             incoming == get_incoming(ctx.atoms, entity_node)
             behaving == {i \in incoming : has_get_predicate(ctx.atoms[i].atom)}
         IN  Ret(ctx, PyDict([entity_id |-> entity_id,
                              behavioral_patterns |->
                                  IF behaving = {} THEN <<>>
                                  ELSE [k \in 1..Cardinality(behaving) |-> <<>>],
                              cognitive_score |->
                                  IF known THEN ctx.atoms[handle(ctx.atoms, entity_node)].tv.mean
                                  ELSE 0,
                              attention_level |-> IF known THEN sti[entity_node.t] ELSE 0,
                              relationship_count |-> Cardinality(incoming)]))

clear_atomspace(ctx, fail) ==
    IF ~ctx.opencog_available THEN Ret(ctx, PyNone)
    ELSE IF ~Live(ctx) THEN Raise(ctx, FALSE)
    ELSE IF fail = 1 THEN Raise(ctx, TRUE)
    ELSE Ret([ctx EXCEPT !.atoms = <<>>], PyNone)

S_OK == <<"O","K">>

test_connection(ctx) == Ret(ctx, PyStr(S_OK))

S_version_mock == <<"O","p","e","n","C","o","g"," ","n","o","t"," ","a","v","a","i","l","a","b","l","e"," ","(","m","o","c","k"," ","m","o","d","e",")">>
S_version == <<"O","p","e","n","C","o","g"," ","5",".","0",".","3"," ","(","v","i","a"," ","P","y","t","h","o","n"," ","b","r","i","d","g","e",")">>

get_opencog_version(ctx) ==
    IF ~ctx.opencog_available THEN Ret(ctx, PyStr(S_version_mock))
    ELSE Ret(ctx, PyStr(S_version))

\* variant: an error of atomspace.clear() leaves shutdown as an exception
shutdown_propagating(ctx, fail) ==
    IF Live(ctx) /\ ctx.opencog_available
    THEN IF fail = 1 THEN Raise(ctx, TRUE)
         ELSE Ret([ctx EXCEPT !.atomspace = "None", !.atoms = <<>>], PyNone)
    ELSE Ret([ctx EXCEPT !.atomspace = "None"], PyNone)

\* an error of atomspace.clear() is logged and dropped; the handle is released
\* and the store of the dropped object is left as the clear left it
shutdown(ctx, fail) ==
    IF Live(ctx) /\ ctx.opencog_available
    THEN IF fail = 1
         THEN [Ret([ctx EXCEPT !.atomspace = "None"], PyNone) EXCEPT !.backend = TRUE]
         ELSE Ret([ctx EXCEPT !.atomspace = "None", !.atoms = <<>>], PyNone)
    ELSE Ret([ctx EXCEPT !.atomspace = "None"], PyNone)

(***************************************************************************)
(* main(): one invocation, function_name and parameters_json from argv.    *)
(***************************************************************************)
EmptyDict == [f \in {} |-> 0]

\* json.loads(parameters_json) if parameters_json != "null" else {}
json_loads(parameters_json) ==
    CASE parameters_json.kind = "null" -> [ok |-> TRUE, isdict |-> TRUE, fields |-> EmptyDict]
      [] parameters_json.kind = "object" ->
             [ok |-> TRUE, isdict |-> TRUE, fields |-> parameters_json.fields]
      [] parameters_json.kind = "array" -> [ok |-> TRUE, isdict |-> FALSE, fields |-> EmptyDict]
      [] parameters_json.kind = "malformed" ->
             [ok |-> FALSE, isdict |-> FALSE, fields |-> EmptyDict]

\* the keys main reads from parameters before it calls the function
RequiredFields(function_name) ==
    CASE function_name = "create_concept_node" -> {"concept"}
      [] function_name = "create_predicate_node" -> {"predicate"}
      [] function_name = "add_transaction_entity" -> {"entity_id", "properties"}
      [] function_name = "create_relationship" ->
             {"predicate", "from_entity", "to_entity", "strength"}
      [] function_name = "execute_pattern_matching" -> {"pattern"}
      [] function_name = "run_pln_inference" -> {"query", "max_steps"}
      [] function_name = "detect_anomalies" -> {"threshold"}
      [] function_name = "get_cognitive_insights" -> {"entity_id"}
      [] OTHER -> {}

FunctionNames ==
    {"initialize_atomspace", "create_concept_node", "create_predicate_node",
     "add_transaction_entity", "create_relationship", "execute_pattern_matching",
     "run_pln_inference", "detect_anomalies", "get_cognitive_insights",
     "clear_atomspace", "test_connection", "get_opencog_version", "shutdown"}

\* parameters[k] succeeds for every k the function needs (else KeyError / TypeError)
subscripts_ok(parameters, function_name) ==
    \/ RequiredFields(function_name) = {}
    \/ /\ parameters.isdict
       /\ RequiredFields(function_name) \subseteq DOMAIN parameters.fields

\* the outcome of main's try block: the operation's outcome and the function called
Called(name, out) == [invoked |-> name] @@ out

\* variant: an unknown name falls through the chain without an error
unknown_function_ignored(ctx) == Called("none", Ret(ctx, PyNone))

\* raise ValueError(f"Unknown function: {function_name}")
unknown_function(ctx) == Called("none", Raise(ctx, FALSE))

\* a subscript of parameters raised before the call
bad_parameters(ctx) == Called("none", Raise(ctx, FALSE))

S_cleared == <<"c","l","e","a","r","e","d">>
S_shutdown == <<"s","h","u","t","d","o","w","n">>

\* result = "cleared" / result = "shutdown" after a call that returned
completion(out, token) == IF out.raised THEN out ELSE [out EXCEPT !.value = PyStr(token)]

dispatch(ctx, function_name, parameters, fail, sti) ==
    LET f == parameters.fields
    IN  IF function_name \notin FunctionNames THEN unknown_function(ctx)
        ELSE IF ~subscripts_ok(parameters, function_name) THEN bad_parameters(ctx)
        ELSE Called(function_name,
          CASE function_name = "initialize_atomspace" -> initialize_atomspace(ctx)
            [] function_name = "create_concept_node" ->
                   create_concept_node(ctx, f.concept, fail)
            [] function_name = "create_predicate_node" ->
                   create_predicate_node(ctx, f.predicate, fail)
            [] function_name = "add_transaction_entity" ->
                   add_transaction_entity(ctx, f.entity_id, f.properties, fail)
            [] function_name = "create_relationship" ->
                   create_relationship(ctx, f.predicate, f.from_entity, f.to_entity,
                                       f.strength, fail)
            [] function_name = "execute_pattern_matching" ->
                   execute_pattern_matching(ctx, f.pattern, fail)
            [] function_name = "run_pln_inference" ->
                   run_pln_inference(ctx, f.query, f.max_steps)
            [] function_name = "detect_anomalies" ->
                   detect_anomalies(ctx, f.threshold, fail, sti)
            [] function_name = "get_cognitive_insights" ->
                   get_cognitive_insights(ctx, f.entity_id, fail, sti)
            [] function_name = "clear_atomspace" ->
                   completion(clear_atomspace(ctx, fail), S_cleared)
            [] function_name = "test_connection" -> test_connection(ctx)
            [] function_name = "get_opencog_version" -> get_opencog_version(ctx)
            [] function_name = "shutdown" -> completion(shutdown(ctx, fail), S_shutdown))

\* variant: the context is acquired on the first run only
needs_init_once(ctx) == ctx.atomspace = "None" /\ ~ctx.opencog_available

\* if atomspace is None: initialize_opencog()
needs_init(ctx) == ctx.atomspace = "None"

\* except Exception: ... sys.exit(1)
exit_status(out) == IF out.raised THEN 1 ELSE 0

\* what the pass writes to standard output
printed(out) ==
    IF out.raised \/ out.value.type = "none" THEN <<>>
    ELSE IF out.value.type \in {"dict", "list"} THEN <<[fmt |-> "json", val |-> out.value.val]>>
    ELSE <<[fmt |-> "str", val |-> out.value.val]>>

(***************************************************************************)
(* Inputs.                                                                 *)
(***************************************************************************)
Names == {<<"A">>, <<"B">>}
Predicates == {<<"p","a","y","s">>}
S_amount == <<"a","m","o","u","n","t">>
S_currency == <<"c","u","r","r","e","n","c","y">>
S_USD == <<"U","S","D">>
S_kind == <<"k","i","n","d">>
PropertyMaps ==
    {<<>>,
     <<[key |-> S_amount, value |-> JInt(100)], [key |-> S_currency, value |-> JStr(S_USD)]>>,
     <<[key |-> S_currency, value |-> JStr(S_USD)],
       [key |-> S_amount, value |-> JStr(<<"1","0","0">>)],
       [key |-> S_kind, value |-> JStr(<<"c","a","s","h">>)]>>}
Strengths == {50, 100}
Patterns == {<<>>, <<"A">>, <<"z","z">>}
Queries == {<<"q">>}
StepLimits == {1, 4, 7}
Thresholds == {0, 100}
STIValues == {0, 100}
\* one attention value for the atoms of each type
STIs == [AtomTypes -> STIValues]
NoSTI == [t \in AtomTypes |-> 0]

ValidFields(function_name) ==
    CASE function_name = "create_concept_node" -> {[concept |-> c] : c \in Names}
      [] function_name = "create_predicate_node" -> {[predicate |-> p] : p \in Predicates}
      [] function_name = "add_transaction_entity" ->
             {[entity_id |-> e, properties |-> ps] : e \in Names, ps \in PropertyMaps}
      [] function_name = "create_relationship" ->
             {[predicate |-> p, from_entity |-> a, to_entity |-> b, strength |-> w] :
                 p \in Predicates, a \in Names, b \in Names, w \in Strengths}
      [] function_name = "execute_pattern_matching" -> {[pattern |-> p] : p \in Patterns}
      [] function_name = "run_pln_inference" ->
             {[query |-> q, max_steps |-> n] : q \in Queries, n \in StepLimits}
      [] function_name = "detect_anomalies" -> {[threshold |-> t] : t \in Thresholds}
      [] function_name = "get_cognitive_insights" -> {[entity_id |-> e] : e \in Names}


Object(fields) == [kind |-> "object", fields |-> fields]
Null == [kind |-> "null", fields |-> EmptyDict]
Malformed == [kind |-> "malformed", fields |-> EmptyDict]
Array == [kind |-> "array", fields |-> EmptyDict]

\* a function without parameters is invoked with "null"
ValidPayloads(function_name) ==
    IF RequiredFields(function_name) = {} THEN {Null}
    ELSE {Object(f) : f \in ValidFields(function_name)}

Without(f, k) == [x \in (DOMAIN f) \ {k} |-> f[x]]

\* malformed JSON, and for a function that needs fields: null, JSON that is
\* not an object, and an object that lacks one of the fields
BadPayloads(function_name) ==
    {Malformed} \cup
    (IF RequiredFields(function_name) = {} THEN {}
     ELSE {Null, Array} \cup
          {Object(Without(CHOOSE f \in ValidFields(function_name) : TRUE, k)) :
               k \in RequiredFields(function_name)})

\* the calls on the atomspace the function makes when it runs to its end
backend_calls(function_name, parameters) ==
    CASE function_name \in {"initialize_atomspace", "run_pln_inference",
                            "test_connection", "get_opencog_version"} -> 0
      [] function_name = "add_transaction_entity" -> 1 + Len(parameters.fields.properties)
      [] OTHER -> 1

Init ==
    /\ atomspace = "None"
    /\ opencog_available = FALSE
    /\ atoms = <<>>
    /\ passes = 0
    /\ last = <<>>
    /\ prev = <<>>

\* the evaluation links the store holds
evaluation_links(store) ==
    {store[i].atom : i \in {j \in 1..Len(store) : store[j].atom.t = "EvaluationLink"}}

\* what is kept of the pass before the last one
Summary(pass) ==
    IF pass = <<>> THEN <<>>
    ELSE [function_name |-> pass.function_name,
          invoked |-> pass.invoked,
          available |-> pass.available,
          exit |-> pass.exit,
          to_entity |-> IF pass.invoked = "create_relationship"
                        THEN pass.fields.to_entity ELSE <<>>]

\* One pass through main.  acq, fail and sti are the behaviour of the backend
\* during the pass: the outcome of the acquisition, the call on the atomspace
\* that raises, the attention values read.
main(function_name, parameters_json, acq, fail, sti) ==
    LET ctx0 == Ctx(atomspace, opencog_available, atoms)
        init == needs_init(ctx0)
        ctx1 == IF init THEN initialize_opencog(ctx0, acq) ELSE ctx0
        parameters == json_loads(parameters_json)
        outcome == IF parameters.ok
                   THEN dispatch(ctx1, function_name, parameters, fail, sti)
                   ELSE bad_parameters(ctx1)
    IN  \E out \in {outcome} :
        /\ atomspace' = out.ctx.atomspace
        /\ opencog_available' = out.ctx.opencog_available
        /\ atoms' = out.ctx.atoms
        /\ passes' = passes + 1
        /\ last' = [argc |-> 3,
                    function_name |-> function_name,
                    payload |-> parameters_json.kind,
                    fields |-> parameters.fields,
                    init_called |-> init,
                    acquisition |-> IF init THEN acq ELSE "none",
                    available |-> ctx1.opencog_available,
                    handle |-> ctx1.atomspace,
                    invoked |-> out.invoked,
                    raised |-> out.raised,
                    backend |-> out.backend,
                    result |-> out.value,
                    sti |-> sti,
                    created |-> evaluation_links(out.ctx.atoms)
                                    \ evaluation_links(ctx1.atoms),
                    before |-> Len(ctx1.atoms),
                    exit |-> exit_status(out),
                    stdout |-> printed(out)]
        /\ prev' = Summary(last)

\* the backend behaviours a pass can observe: an acquisition only when main
\* acquires, a failing call only among the calls the function makes against
\* a real context, attention values only where they are read
AcquisitionChoices == IF atomspace = "None" THEN Acquisitions ELSE {"ok"}
RealAfter(acq) == IF atomspace = "None" THEN acq = "ok" ELSE opencog_available
FailChoices(function_name, parameters_json, acq) ==
    IF RealAfter(acq)
    THEN 0..Min(MaxFail, backend_calls(function_name, parameters_json))
    ELSE {0}
STIChoices(function_name, acq, fail) ==
    IF /\ RealAfter(acq)
       /\ fail = 0
       /\ function_name \in {"detect_anomalies", "get_cognitive_insights"}
    THEN STIs ELSE {NoSTI}

ValidPayloadsOf == [function_name \in FunctionNames |-> ValidPayloads(function_name)]
BadPayloadsOf == [function_name \in FunctionNames |-> BadPayloads(function_name)]

Invoke(function_name) ==
    \E parameters_json \in ValidPayloadsOf[function_name], acq \in AcquisitionChoices :
        \E fail \in FailChoices(function_name, parameters_json, acq) :
            \E sti \in STIChoices(function_name, acq, fail) :
                main(function_name, parameters_json, acq, fail, sti)

InitializeAtomspace ==
    /\ passes < MaxPasses
    /\ Invoke("initialize_atomspace")
CreateConceptNode ==
    /\ passes < MaxPasses
    /\ Invoke("create_concept_node")
CreatePredicateNode ==
    /\ passes < MaxPasses
    /\ Invoke("create_predicate_node")
AddTransactionEntity ==
    /\ passes < MaxPasses
    /\ Invoke("add_transaction_entity")
CreateRelationship ==
    /\ passes < MaxPasses
    /\ Invoke("create_relationship")
ExecutePatternMatching ==
    /\ passes < MaxPasses
    /\ Invoke("execute_pattern_matching")
RunPlnInference ==
    /\ passes < MaxPasses
    /\ Invoke("run_pln_inference")
DetectAnomalies ==
    /\ passes < MaxPasses
    /\ Invoke("detect_anomalies")
GetCognitiveInsights ==
    /\ passes < MaxPasses
    /\ Invoke("get_cognitive_insights")
ClearAtomspace ==
    /\ passes < MaxPasses
    /\ Invoke("clear_atomspace")
TestConnection ==
    /\ passes < MaxPasses
    /\ Invoke("test_connection")
GetOpencogVersion ==
    /\ passes < MaxPasses
    /\ Invoke("get_opencog_version")
Shutdown ==
    /\ passes < MaxPasses
    /\ Invoke("shutdown")

S_not_a_real_op == "not_a_real_op"

\* an operation name main does not dispatch, with any payload
UnknownFunction ==
    /\ passes < MaxPasses
    /\ \E parameters_json \in {Null, Malformed, Array, Object([concept |-> <<"A">>])},
          acq \in AcquisitionChoices :
           main(S_not_a_real_op, parameters_json, acq, 0, NoSTI)

\* a dispatched name with a payload that is malformed or lacks a field
BadParameters ==
    /\ passes < MaxPasses
    /\ \E function_name \in FunctionNames :
          \E parameters_json \in BadPayloadsOf[function_name], acq \in AcquisitionChoices :
              main(function_name, parameters_json, acq, 0, NoSTI)

S_usage == <<"U","s","a","g","e",":"," ","o","p","e","n","c","o","g","_","b","r","i","d","g","e",".","p","y"," ","<","f","u","n","c","t","i","o","n","_","n","a","m","e",">"," ","<","p","a","r","a","m","e","t","e","r","s","_","j","s","o","n",">">>

\* len(sys.argv) != 3: the usage message is printed and the process exits
\* with status 1 before anything else is done
WrongArgumentCount ==
    /\ passes < MaxPasses
    /\ \E argc \in {2, 4} :
          last' = [argc |-> argc,
                   function_name |-> "",
                   payload |-> "none",
                   fields |-> EmptyDict,
                   init_called |-> FALSE,
                   acquisition |-> "none",
                   available |-> opencog_available,
                   handle |-> atomspace,
                   invoked |-> "none",
                   raised |-> FALSE,
                   backend |-> FALSE,
                   result |-> PyNone,
                   sti |-> NoSTI,
                   created |-> {},
                   before |-> Len(atoms),
                   exit |-> 1,
                   stdout |-> <<[fmt |-> "str", val |-> S_usage]>>]
    /\ passes' = passes + 1
    /\ prev' = Summary(last)
    /\ UNCHANGED <<atomspace, opencog_available, atoms>>

Next ==
    \/ WrongArgumentCount
    \/ InitializeAtomspace
    \/ CreateConceptNode
    \/ CreatePredicateNode
    \/ AddTransactionEntity
    \/ CreateRelationship
    \/ ExecutePatternMatching
    \/ RunPlnInference
    \/ DetectAnomalies
    \/ GetCognitiveInsights
    \/ ClearAtomspace
    \/ TestConnection
    \/ GetOpencogVersion
    \/ Shutdown
    \/ UnknownFunction
    \/ BadParameters

Spec == Init /\ [][Next]_vars

(***************************************************************************)
(* Properties.  `last` is the pass just made, `prev` the one before it.    *)
(***************************************************************************)
Invoked(function_name) == last # <<>> /\ last.invoked = function_name
Returned(function_name) == Invoked(function_name) /\ ~last.raised

S_mock_ == <<"m","o","c","k","_">>
StartsWith(s, prefix) == Len(s) >= Len(prefix) /\ SubSeq(s, 1, Len(prefix)) = prefix

BridgeOperations ==
    {"initialize_atomspace", "create_concept_node", "create_predicate_node",
     "add_transaction_entity", "create_relationship", "execute_pattern_matching",
     "run_pln_inference", "detect_anomalies", "get_cognitive_insights",
     "clear_atomspace", "shutdown"}

\* the fields the documentation gives the mappings of each operation, under
\* the names the code uses for them (result: inference_result, id: entity_id,
\* score: anomaly_score, type: anomaly_type)
DocumentedKeys(function_name) ==
    CASE function_name = "execute_pattern_matching" ->
             {"pattern", "matches", "confidence", "count"}
      [] function_name = "run_pln_inference" ->
             {"query", "inference_result", "confidence", "steps"}
      [] function_name = "detect_anomalies" ->
             {"entity_id", "anomaly_score", "anomaly_type", "description"}
      [] function_name = "get_cognitive_insights" ->
             {"entity_id", "behavioral_patterns", "cognitive_score", "attention_level",
              "relationship_count"}

DocumentedShape(function_name, result) ==
    CASE function_name \in {"execute_pattern_matching", "run_pln_inference",
                            "detect_anomalies"} ->
             /\ result.type = "list"
             /\ \A i \in 1..Len(result.val) :
                    DocumentedKeys(function_name) \subseteq DOMAIN result.val[i]
      [] function_name = "get_cognitive_insights" ->
             /\ result.type = "dict"
             /\ DocumentedKeys(function_name) \subseteq DOMAIN result.val
      [] OTHER -> result.type = "str"

\* C1: in absent mode every operation of the bridge returns without raising,
\* and returns a value of the shape documented for it (pattern-query:
\* pattern, matches, confidence, count; inference: query, result, confidence,
\* steps; anomaly-scan: id, score, type, description; cognitive-insights: its
\* five fields; the creation operations: a string).
C1_MockShapes ==
    \A function_name \in BridgeOperations :
        Invoked(function_name) /\ ~last.available =>
            /\ ~last.raised
            /\ DocumentedShape(function_name, last.result)

\* C2: a cognitive-insights(t) that follows a successful
\* create-relationship(p, s, t, w) on the same context reports
\* relationship_count >= 1.
C2_RoundTrip ==
    /\ prev # <<>>
    /\ prev.invoked = "create_relationship"
    /\ prev.exit = 0
    /\ Returned("get_cognitive_insights")
    /\ ~last.init_called
    /\ last.fields.entity_id = prev.to_entity
    => last.result.val.relationship_count >= 1

\* the number of stored elements whose string form holds the pattern,
\* case-insensitively
TrueCount(store, pattern) ==
    Cardinality({i \in 1..Len(store) :
                    contains(lower(pattern), lower(atom_str(store[i].atom)))})

\* C3, as stated: for every pattern and store content the result of
\* pattern-query has a match list of length min(true_count, 10) and a count
\* field equal to true_count.
C3_Original ==
    Returned("execute_pattern_matching") /\ last.available =>
        LET true_count == TrueCount(atoms, last.fields.pattern)
        IN  /\ Len(last.result.val) = 1
            /\ "count" \in DOMAIN last.result.val[1]
            /\ Len(last.result.val[1].matches) = Min(true_count, 10)
            /\ last.result.val[1].count = true_count

\* C3, amended: in present mode, when true_count >= 1 the result of
\* pattern-query is one mapping whose match list has length
\* min(true_count, 10) and whose count field equals true_count; when
\* true_count = 0 the result is the empty sequence, with no count field.
C3_PatternCount ==
    Returned("execute_pattern_matching") /\ last.available =>
        LET true_count == TrueCount(atoms, last.fields.pattern)
        IN  IF true_count = 0 THEN last.result.val = <<>>
            ELSE /\ Len(last.result.val) = 1
                 /\ last.result.val[1].pattern = last.fields.pattern
                 /\ Len(last.result.val[1].matches) = Min(true_count, 10)
                 /\ last.result.val[1].count = true_count

\* a query with more matches than the cap, and not every element matching
C3_Witness ==
    /\ Returned("execute_pattern_matching")
    /\ last.available
    /\ TrueCount(atoms, last.fields.pattern) > 10
    /\ TrueCount(atoms, last.fields.pattern) < Len(atoms)
    /\ Len(last.result.val[1].matches) = 10
    /\ last.result.val[1].count > 10

\* the associations add-entity is to make: for each key k one association
\* labelled has_k from the entity to the stringified value
ExpectedAssociations(entity_id, properties) ==
    {EvaluationLink(PredicateNode(<<"h","a","s","_">> \o properties[i].key),
                    ListLink(ConceptNode(<<"e","n","t","i","t","y","_">> \o entity_id),
                             ConceptNode(IF properties[i].value.kind = "int"
                                         THEN str_int(properties[i].value.n)
                                         ELSE properties[i].value.s))) :
        i \in 1..Len(properties)}

AssociationsMade ==
    LET expected == ExpectedAssociations(last.fields.entity_id, last.fields.properties)
    IN  /\ last.result.type = "str"
        /\ Cardinality(expected) = Len(last.fields.properties)
        /\ expected \subseteq evaluation_links(atoms)
        /\ last.created \subseteq expected
        /\ last.before = 0 => last.created = expected

\* C4, as stated: whenever add-entity returns for a properties map with n
\* keys it has created exactly n associations in the context, one per key k,
\* labelled has_k and carrying the stringified value.
C4_Original == Returned("add_transaction_entity") => AssociationsMade

\* C4, amended: in present mode, whenever add-entity returns it returns an
\* entity reference, the context holds for each of the n keys k the
\* association has_k with the stringified value (n distinct associations),
\* and the call has created no other association (all n of them in an empty
\* context).
C4_Associations == Returned("add_transaction_entity") /\ last.available => AssociationsMade

\* add-entity with {"amount": 100, "currency": "USD"} in present mode
C4_Witness ==
    /\ Returned("add_transaction_entity")
    /\ last.available
    /\ Len(last.fields.properties) = 2
    /\ Cardinality(last.created) = 2
    /\ {a.out[1].name : a \in last.created} = {<<"h","a","s","_","a","m","o","u","n","t">>, <<"h","a","s","_","c","u","r","r","e","n","c","y">>}

\* C5: a pass (with its two arguments) whose operation name is not
\* dispatched, or whose payload is malformed JSON or lacks a field the
\* operation needs, exits with status 1, writes nothing to standard output
\* and invokes no operation.
C5_BadInvocationExits ==
    /\ last # <<>>
    /\ last.argc = 3
    /\ \/ last.function_name \notin FunctionNames
       \/ last.payload = "malformed"
       \/ ~(RequiredFields(last.function_name) \subseteq DOMAIN last.fields)
    => /\ last.exit = 1
       /\ last.stdout = <<>>
       /\ last.invoked = "none"

\* the payload "null" for an operation that needs a field, in present mode
C5_Witness ==
    /\ last # <<>>
    /\ last.available
    /\ last.function_name = "create_concept_node"
    /\ last.payload = "null"
    /\ last.exit = 1

\* C6, as stated: in present mode a backend action that raises makes main
\* exit with status 1 and print nothing, for every operation.
C6_Original ==
    last # <<>> /\ last.available /\ last.backend =>
        /\ last.exit = 1
        /\ last.stdout = <<>>
        /\ opencog_available

\* C6, amended: in present mode a backend action that raises in an operation
\* other than shutdown leaves the operation as a failure: main exits with
\* status 1 and prints nothing, no placeholder value is returned, and the
\* mode flag stays present.
C6_BackendFailurePropagates ==
    last # <<>> /\ last.available /\ last.backend /\ last.invoked # "shutdown" =>
        /\ last.raised
        /\ last.result = PyNone
        /\ last.exit = 1
        /\ last.stdout = <<>>
        /\ opencog_available

\* the backend raises while a concept is created
C6_Witness ==
    /\ Invoked("create_concept_node")
    /\ last.available
    /\ last.backend
    /\ last.exit = 1
    /\ opencog_available

\* the value is a labelled placeholder of the mock branch
MockValue(function_name, result) ==
    CASE function_name \in {"initialize_atomspace", "create_concept_node",
                            "create_predicate_node", "add_transaction_entity",
                            "create_relationship"} ->
             result.type = "str" /\ StartsWith(result.val, S_mock_)
      [] function_name = "execute_pattern_matching" ->
             Len(result.val) = 1 /\ StartsWith(result.val[1].matches[1], S_mock_)
      [] function_name = "run_pln_inference" ->
             Len(result.val) = 1 /\ StartsWith(result.val[1].inference_result, S_mock_)
      [] function_name = "detect_anomalies" ->
             Len(result.val) = 1 /\ StartsWith(result.val[1].entity_id, S_mock_)
      [] function_name = "get_cognitive_insights" ->
             StartsWith(result.val.behavioral_patterns[1], S_mock_)
      [] function_name = "get_opencog_version" ->
             result.val = <<"O","p","e","n","C","o","g"," ","n","o","t"," ","a","v","a","i","l","a","b","l","e"," ","(","m","o","c","k"," ","m","o","d","e",")">>
      [] OTHER -> result.type = "str"

\* C7: when the acquisition fails (import, constructor or initializer),
\* initialize_opencog leaves mode = absent and the operation of the pass
\* runs its mock branch: a valid invocation exits with status 0 and prints
\* the mock result.
C7_AcquisitionFailureNotFatal ==
    last # <<>> /\ last.init_called /\ last.acquisition # "ok" =>
        /\ ~last.available
        /\ ~opencog_available
        /\ last.invoked # "none" =>
               /\ last.exit = 0
               /\ last.stdout # <<>>
               /\ last.stdout[1].val = last.result.val
               /\ MockValue(last.invoked, last.result)

\* a context that was present is shut down, and the next acquisition fails
C7_Witness ==
    /\ prev # <<>>
    /\ prev.invoked = "shutdown"
    /\ prev.available
    /\ Invoked("create_relationship")
    /\ last.init_called
    /\ last.acquisition = "InitializeRaises"
    /\ last.exit = 0

\* C8: shutdown completes without raising and leaves the handle released in
\* both modes; in present mode it clears the context first, and an error of
\* that clear is swallowed: the handle is still released, main prints the
\* completion token and exits with status 0.
C8_ShutdownReleases ==
    Invoked("shutdown") =>
        /\ ~last.raised
        /\ atomspace = "None"
        /\ last.exit = 0
        /\ last.stdout = <<[fmt |-> "str", val |-> <<"s","h","u","t","d","o","w","n">>]>>
        /\ last.available /\ ~last.backend => atoms = <<>>

\* the clear of a non-empty context raises during shutdown
C8_Witness ==
    /\ Invoked("shutdown")
    /\ last.available
    /\ last.backend
    /\ last.before > 0
    /\ atomspace = "None"
    /\ last.exit = 0

ThresholdProbes == {0, 50, 100, 150}

\* the handles of the anomalies a scan reports
ReportedIds(result) == {result.val[i].atom_id : i \in 1..Len(result.val)}

\* C9: anomaly-scan is monotonic in its threshold: on the same context a
\* higher threshold returns no more anomalies than a lower one (in present
\* mode a subset), and in present mode the elements returned are exactly
\* those whose attention score strictly exceeds the threshold.
C9_AnomalyMonotonic ==
    Returned("detect_anomalies") =>
        LET ctx == Ctx(atomspace, opencog_available, atoms)
            threshold == last.fields.threshold
            scan(t) == detect_anomalies(ctx, t, 0, last.sti).value
        IN  /\ \A t1, t2 \in ThresholdProbes \cup {threshold} :
                   t1 <= t2 =>
                       /\ Len(scan(t2).val) <= Len(scan(t1).val)
                       /\ last.available => ReportedIds(scan(t2)) \subseteq ReportedIds(scan(t1))
            /\ scan(threshold) = last.result
            /\ last.available =>
                   /\ ReportedIds(last.result) =
                          {str_int(i) : i \in {j \in 1..Len(atoms) :
                                                  last.sti[atoms[j].atom.t] > threshold}}
                   /\ Len(last.result.val) = Cardinality(ReportedIds(last.result))

\* a scan in present mode that reports some elements and not others, one of
\* them with an attention score equal to the threshold
C9_Witness ==
    /\ Returned("detect_anomalies")
    /\ last.available
    /\ Len(last.result.val) > 0
    /\ Len(last.result.val) < Len(atoms)
    /\ \E i \in 1..Len(atoms) : last.sti[atoms[i].atom.t] = last.fields.threshold

\* C10: the pass through main that follows a shutdown and gets to dispatch
\* finds the handle absent and calls initialize_opencog first, and no
\* operation returns a result in present mode while the handle is released.
C10_ReinitAfterShutdown ==
    last # <<>> /\ last.argc = 3 =>
        /\ prev # <<>> /\ prev.invoked = "shutdown" => last.init_called
        /\ last.invoked # "none" /\ last.available /\ ~last.raised =>
               last.handle # "None"

\* a present context is shut down and the next pass works on a new one
C10_Witness ==
    /\ prev # <<>>
    /\ prev.invoked = "shutdown"
    /\ prev.available
    /\ Returned("run_pln_inference")
    /\ last.init_called
    /\ last.available
    /\ last.handle = "AtomSpace"
====
